---- MODULE Spec2Model ----
(***************************************************************************)
(* Weather-correlated production advisory: the master rule engine of       *)
(* src/unnamed/part_002 (seven rules, safety override, consolidation), the *)
(* primary rules of src/20_logic/heuristics_rules.md with their conflict   *)
(* rule, and the two MongoDB aggregation pipelines of src/30_pipelines     *)
(* (the production/weather join and the rolling-window feature builder),   *)
(* and the deployment script src/50_implementation/deployment/deploy.sh.   *)
(*                                                                         *)
(* Units. Rule engine: temperatures in degrees F, humidity in percent,     *)
(* wind in mph, precipitation in hundredths of an inch. Pipelines: time in *)
(* hours, every number (rainfall in inches, humidity in percent,           *)
(* efficiency ratios, indicators) an exact rational. Fields the pipelines  *)
(* only copy (temperature trend, material variance, machine class) are     *)
(* left out of the documents.                                              *)
(***************************************************************************)
EXTENDS Integers, Sequences, FiniteSets, TLC

VARIABLES
    \* ---- rule engine (WeatherBasedProductionEngine.execute_rules) ----
    pc,                 \* "idle" | "rules" | "done": position in execute_rules
    rule_idx,           \* index in self.rules of the rule the for loop is at
    weather_data,       \* argument of execute_rules
    production_state,   \* argument of execute_rules
    current_date,       \* the month of the cycle's date (seasonal rule)
    rule_confidence,    \* what the calculate_*_confidence helpers give
    equipment_risk,     \* what check_equipment_limits(weather) reports
    rule_results,       \* local list rule_results
    override_required,  \* local flag override_required
    raised,             \* rules whose call raised (logged by logger.error)
    consolidated,       \* the value execute_rules returns
    \* ---- primary rules (heuristics_rules.md) ----
    inputs,             \* the algorithm's inputs dict
    recommendations,    \* the algorithm's recommendations dict
    \* ---- pipelines ----
    timerlogs,                  \* collection timerlogs (production cycles)
    weather_historical,         \* collection weather_historical
    weather_production_events,  \* collection written by the join pipeline
    production_weather_features,\* collection written by the feature builder
    now,                        \* wall clock read by new Date()
    join_error,                 \* the last run of the join ended in an error
    \* ---- deployment (deploy.sh, main "deploy") ----
    step,           \* the statement of deploy_application main is at
    attempt,        \* local attempt of wait_for_service, 0 outside of it
    checks,         \* status checks of the current wait_for_service that
                    \* found the service not ready
    started,        \* services docker-compose up -d has been run for
    observed,       \* the status line each wait_for_service accepted
    failed,         \* the service whose wait_for_service returned 1
    outcome         \* "running" | "completed" | "aborted": the script

engineVars == <<pc, rule_idx, weather_data, production_state, current_date,
                rule_confidence, equipment_risk, rule_results,
                override_required, raised, consolidated>>
primaryVars == <<inputs, recommendations>>
pipelineVars == <<timerlogs, weather_historical, weather_production_events,
                  production_weather_features, now, join_error>>
deployVars == <<step, attempt, checks, started, observed, failed, outcome>>
vars == <<engineVars, pipelineVars, primaryVars, deployVars>>

(***************************************************************************)
(*                               RULE ENGINE                               *)
(***************************************************************************)

\* safety_thresholds['max_temperature'], ['max_humidity']: system configuration
MaxTemperature == 95
MaxHumidity == 85
\* storm thresholds of the safety rule: wind 40 mph, precipitation 2.0 in
StormWindSpeed == 40
StormPrecipitation == 200

Absent == "ABSENT"   \* a key the result dict does not have
NoNumber == -1000    \* a numeric key the result dict does not have

\* self.rules, in registry order
Rules == <<"humidity_curing_rule", "temperature_efficiency_rule",
           "pressure_handling_rule", "seasonal_baseline_rule",
           "multi_location_coordination_rule", "predictive_mitigation_rule",
           "safety_quality_override_rule">>

NumRules == Len(Rules)

\* inputs of a cycle
Temperatures == {60, 80, 90, 110}
Humidities == {35, 70, 78, 90}
WindSpeeds == {10, 45}
Precipitations == {0, 250}
PressureRates == {-20, 0}
RiskLevels == {"LOW", "HIGH"}
ProductionStatuses == {"RUNNING"}

WeatherInputs ==
    [temperature : Temperatures, humidity : Humidities,
     wind_speed : WindSpeeds, precipitation : Precipitations,
     pressure_change_rate : PressureRates]

NoWeather ==
    [temperature |-> 80, humidity |-> 70, wind_speed |-> 10,
     precipitation |-> 0, pressure_change_rate |-> 0]

\* readings on and next to the thresholds of rules 1 and 2
BoundaryTemperatures == {65, 85, 93, 95}
BoundaryHumidities == {40, 50, 65, 75}

HumiditySweep ==
    {[NoWeather EXCEPT !.humidity = h] : h \in Humidities \cup BoundaryHumidities}
TemperatureSweep ==
    {[NoWeather EXCEPT !.temperature = t] :
        t \in Temperatures \cup BoundaryTemperatures}

\* current_date.month
Months == 1..12
SeasonMonths == {1, 7, 10}

\* confidence_score of rules 1, 2, 3 in tenths: the calculate_*_confidence
\* helpers are not part of the repository, so any profile may come back
SteadyConfidence == <<9, 9, 9>>
ConfidenceProfiles == {SteadyConfidence, <<9, 5, 8>>, <<6, 8, 7>>, <<9, 8, 4>>}

\* the arguments of one call of execute_rules
CycleInputs ==
    [weather : WeatherInputs, status : ProductionStatuses, risk : RiskLevels,
     month : {10}, confidence : {SteadyConfidence}]
    \cup
    [weather : HumiditySweep \cup TemperatureSweep, status : ProductionStatuses,
     risk : {"LOW"}, month : SeasonMonths, confidence : ConfidenceProfiles]
    \cup
    [weather : {NoWeather}, status : ProductionStatuses, risk : {"LOW"},
     month : Months, confidence : {SteadyConfidence}]

\* ---- Rule 1: humidity_curing_rule ----
\* adjustment_factor in percent of base_pre_mix_time
\* the tiers with their lower ends included
HumidityCuringRuleInclusive(humidity) ==
    IF humidity >= 75 THEN [adjustment_factor |-> 130, alert_level |-> "HIGH"]
    ELSE IF humidity >= 65 THEN [adjustment_factor |-> 115, alert_level |-> "MEDIUM"]
    ELSE IF humidity <= 40 THEN [adjustment_factor |-> 90, alert_level |-> "MEDIUM"]
    ELSE [adjustment_factor |-> 100, alert_level |-> "LOW"]

HumidityCuringRule(humidity) ==
    IF humidity > 75 THEN [adjustment_factor |-> 130, alert_level |-> "HIGH"]
    ELSE IF humidity > 65 THEN [adjustment_factor |-> 115, alert_level |-> "MEDIUM"]
    ELSE IF humidity < 40 THEN [adjustment_factor |-> 90, alert_level |-> "MEDIUM"]
    ELSE [adjustment_factor |-> 100, alert_level |-> "LOW"]

\* ---- Rule 2: temperature_efficiency_rule ----
\* cooling_adjustment in tenths
\* the bands with their lower ends included
TemperatureEfficiencyRuleInclusive(temperature) ==
    IF temperature >= 95 THEN
        [dryer_adjustment |-> -15, cooling_adjustment |-> 15,
         production_status |-> "HOLD_RECOMMENDED", alert_level |-> "CRITICAL"]
    ELSE IF temperature >= 85 THEN
        [dryer_adjustment |-> -10, cooling_adjustment |-> 13,
         production_status |-> "ADJUST_PARAMETERS", alert_level |-> "HIGH"]
    ELSE IF temperature <= 65 THEN
        [dryer_adjustment |-> 5, cooling_adjustment |-> 8,
         production_status |-> "ENERGY_OPTIMIZE", alert_level |-> "LOW"]
    ELSE
        [dryer_adjustment |-> 0, cooling_adjustment |-> 10,
         production_status |-> "OPTIMAL", alert_level |-> "LOW"]

TemperatureEfficiencyRule(temperature) ==
    IF temperature > 95 THEN
        [dryer_adjustment |-> -15, cooling_adjustment |-> 15,
         production_status |-> "HOLD_RECOMMENDED", alert_level |-> "CRITICAL"]
    ELSE IF temperature > 85 THEN
        [dryer_adjustment |-> -10, cooling_adjustment |-> 13,
         production_status |-> "ADJUST_PARAMETERS", alert_level |-> "HIGH"]
    ELSE IF temperature < 65 THEN
        [dryer_adjustment |-> 5, cooling_adjustment |-> 8,
         production_status |-> "ENERGY_OPTIMIZE", alert_level |-> "LOW"]
    ELSE
        [dryer_adjustment |-> 0, cooling_adjustment |-> 10,
         production_status |-> "OPTIMAL", alert_level |-> "LOW"]

\* ---- Rule 3: pressure_handling_rule (rate in hundredths of inHg/hour) ----
Abs(x) == IF x < 0 THEN -x ELSE x

PressureHandlingRule(rate) ==
    IF rate < -15 THEN [recommended_action |-> "WEATHER_FRONT_PREP", alert_level |-> "HIGH"]
    ELSE IF rate > 10 THEN [recommended_action |-> "OPTIMIZE_THROUGHPUT", alert_level |-> "LOW"]
    ELSE IF Abs(rate) < 5 THEN [recommended_action |-> "STANDARD_OPERATIONS", alert_level |-> "LOW"]
    ELSE [recommended_action |-> "MONITOR_CLOSELY", alert_level |-> "MEDIUM"]

\* ---- Rule 4: seasonal_baseline_rule ----
\* seasonal_adjustments: humidity_sensitivity in tenths, temperature_threshold
\* in degrees F
SeasonalBaselineRule(month) ==
    IF month \in {6, 7, 8} THEN
        [season_type |-> "SUMMER_CHALLENGE", humidity_sensitivity |-> 13,
         temperature_threshold |-> -5, monitoring_level |-> "ENHANCED"]
    ELSE IF month \in {12, 1, 2} THEN
        [season_type |-> "WINTER_OPTIMIZE", humidity_sensitivity |-> 8,
         temperature_threshold |-> 10, monitoring_level |-> "STANDARD"]
    ELSE
        [season_type |-> "VARIABLE_ADAPTIVE", humidity_sensitivity |-> 11,
         temperature_threshold |-> 0, monitoring_level |-> "ADAPTIVE"]

\* ---- Rule 7: safety_quality_override_rule, one check after the other ----
SafetyAfterTemperature(w) ==
    IF w.temperature > MaxTemperature THEN "CRITICAL" ELSE "NORMAL"

\* the humidity check setting HIGH without looking at the level reached
SafetyAfterHumidityOverwrites(w, level) ==
    IF w.humidity > MaxHumidity THEN "HIGH" ELSE level

SafetyAfterHumidity(w, level) ==
    IF w.humidity > MaxHumidity
    THEN (IF level # "CRITICAL" THEN "HIGH" ELSE level)
    ELSE level

SafetyAfterStorm(w, level) ==
    IF w.wind_speed > StormWindSpeed \/ w.precipitation > StormPrecipitation
    THEN "CRITICAL"
    ELSE level

\* the equipment check appends an action and leaves safety_level as it is
SafetyAfterEquipment(risk, level) == level

SafetyLevel(w, risk) ==
    SafetyAfterEquipment(risk,
        SafetyAfterStorm(w,
            SafetyAfterHumidity(w, SafetyAfterTemperature(w))))

OverrideActions(w, risk) ==
    (IF w.temperature > MaxTemperature THEN {"PRODUCTION_HOLD"} ELSE {})
    \cup (IF w.humidity > MaxHumidity THEN {"ENHANCED_MONITORING"} ELSE {})
    \cup (IF w.wind_speed > StormWindSpeed \/ w.precipitation > StormPrecipitation
          THEN {"FACILITY_SECURE"} ELSE {})
    \cup (IF risk = "HIGH" THEN {"REDUCE_LOAD"} ELSE {})

\* a hold at every safety level above NORMAL
SafetyQualityOverrideRuleHoldsOnHigh(w, status, risk) ==
    [safety_level |-> SafetyLevel(w, risk),
     override_actions |-> OverrideActions(w, risk) \cup
        (IF SafetyLevel(w, risk) # "NORMAL" THEN {"PRODUCTION_HOLD"} ELSE {}),
     production_status |->
        IF SafetyLevel(w, risk) # "NORMAL" THEN "HOLD" ELSE status]

SafetyQualityOverrideRule(w, status, risk) ==
    [safety_level |-> SafetyLevel(w, risk),
     override_actions |-> OverrideActions(w, risk),
     production_status |->
        IF SafetyLevel(w, risk) = "CRITICAL" THEN "HOLD" ELSE status]

\* ---- the result dict of rule number r, with result['rule_name'] set ----
RuleResult(r, w, status, risk, month, confidence) ==
    [rule_name |-> Rules[r],
     adjustment_factor |->
        IF r = 1 THEN HumidityCuringRule(w.humidity).adjustment_factor
        ELSE NoNumber,
     dryer_adjustment |->
        IF r = 2 THEN TemperatureEfficiencyRule(w.temperature).dryer_adjustment
        ELSE NoNumber,
     cooling_adjustment |->
        IF r = 2 THEN TemperatureEfficiencyRule(w.temperature).cooling_adjustment
        ELSE NoNumber,
     season_type |->
        IF r = 4 THEN SeasonalBaselineRule(month).season_type ELSE Absent,
     humidity_sensitivity |->
        IF r = 4 THEN SeasonalBaselineRule(month).humidity_sensitivity
        ELSE NoNumber,
     temperature_threshold |->
        IF r = 4 THEN SeasonalBaselineRule(month).temperature_threshold
        ELSE NoNumber,
     override_actions |->
        IF r = 7 THEN SafetyQualityOverrideRule(w, status, risk).override_actions
        ELSE {},
     confidence_score |-> IF r \in 1..3 THEN confidence[r] ELSE NoNumber,
     alert_level |->
        CASE r = 1 -> HumidityCuringRule(w.humidity).alert_level
          [] r = 2 -> TemperatureEfficiencyRule(w.temperature).alert_level
          [] r = 3 -> PressureHandlingRule(w.pressure_change_rate).alert_level
          [] OTHER -> Absent,
     production_status |->
        CASE r = 2 -> TemperatureEfficiencyRule(w.temperature).production_status
          [] r = 7 -> SafetyQualityOverrideRule(w, status, risk).production_status
          [] OTHER -> Absent,
     safety_level |->
        IF r = 7 THEN SafetyQualityOverrideRule(w, status, risk).safety_level
        ELSE Absent]

\* hasattr(result, 'safety_level'): result is a dict, whose keys are not
\* attributes, so the lookup finds no attribute of that name
HasAttrSafetyLevel(result) == FALSE

\* the override test of execute_rules (short-circuit "and")
ChecksOverride(result) ==
    HasAttrSafetyLevel(result) /\ result.safety_level = "CRITICAL"

\* ---- consolidation ----
AlertRank(a) ==
    CASE a = "CRITICAL" -> 3 [] a = "HIGH" -> 2 [] a = "MEDIUM" -> 1 [] OTHER -> 0

AlertOfRank(n) ==
    CASE n = 3 -> "CRITICAL" [] n = 2 -> "HIGH" [] n = 1 -> "MEDIUM" [] OTHER -> "LOW"

RECURSIVE MaxAlertRank(_)
MaxAlertRank(results) ==
    IF results = <<>> THEN 0
    ELSE LET rest == MaxAlertRank(Tail(results))
             mine == AlertRank(Head(results).alert_level)
         IN IF mine > rest THEN mine ELSE rest

\* the confidence of an advisory no rule contributed a confidence to
NeutralConfidence == 10

\* the confidence_score values the results carry
Confidences(results) ==
    {results[k].confidence_score : k \in 1..Len(results)} \ {NoNumber}

\* the highest confidence among the results
MaxConfidence(results) ==
    IF Confidences(results) = {} THEN NeutralConfidence
    ELSE CHOOSE c \in Confidences(results) :
            \A d \in Confidences(results) : d <= c

\* the lowest confidence among the results
MinConfidence(results) ==
    IF Confidences(results) = {} THEN NeutralConfidence
    ELSE CHOOSE c \in Confidences(results) :
            \A d \in Confidences(results) : c <= d

\* handle_safety_override: the safe-baseline advisory
HandleSafetyOverride(results) ==
    [path |-> "SAFETY_OVERRIDE", parameters |-> "SAFE_BASELINE",
     override_active |-> TRUE, alert_level |-> "CRITICAL",
     confidence_score |-> NeutralConfidence,
     contributing_rules |-> {}]

\* normal_consolidation: rule-derived parameters, maximum alert level
NormalConsolidation(results) ==
    [path |-> "NORMAL", parameters |-> "RULE_DERIVED",
     override_active |-> FALSE,
     alert_level |-> AlertOfRank(MaxAlertRank(results)),
     confidence_score |-> MinConfidence(results),
     contributing_rules |-> {results[k].rule_name : k \in 1..Len(results)}]

ConsolidateRecommendations(results, override) ==
    IF override THEN HandleSafetyOverride(results)
    ELSE NormalConsolidation(results)

NoAdvisory ==
    [path |-> "NONE", parameters |-> "NONE", override_active |-> FALSE,
     alert_level |-> "LOW", confidence_score |-> NeutralConfidence,
     contributing_rules |-> {}]

\* no evaluation of the primary rules is under way
NoInputs ==
    [rainfall_last_24h |-> 0, rain_probability_next_6h |-> 0,
     moisture_excess |-> 0, temperature_ambient |-> 70,
     current_efficiency |-> 100, safety_score |-> 10]
NoRecommendations ==
    [hold_release_flag |-> "NONE", alert_level |-> "LOW", rationale |-> 0]

EngineInit ==
    /\ pc = "idle"
    /\ rule_idx = 1
    /\ weather_data = NoWeather
    /\ production_state = "RUNNING"
    /\ current_date = 10
    /\ rule_confidence = SteadyConfidence
    /\ equipment_risk = "LOW"
    /\ rule_results = <<>>
    /\ override_required = FALSE
    /\ raised = {}
    /\ consolidated = NoAdvisory
    /\ inputs = NoInputs
    /\ recommendations = NoRecommendations

\* execute_rules is entered: rule_results = [], override_required = False
StartCycle ==
    /\ pc = "idle"
    /\ recommendations = NoRecommendations
    /\ \E i \in CycleInputs :
        /\ weather_data' = i.weather
        /\ production_state' = i.status
        /\ equipment_risk' = i.risk
        /\ current_date' = i.month
        /\ rule_confidence' = i.confidence
    /\ pc' = "rules"
    /\ rule_idx' = 1
    /\ rule_results' = <<>>
    /\ override_required' = FALSE
    /\ raised' = {}
    /\ consolidated' = NoAdvisory
    /\ UNCHANGED <<pipelineVars, primaryVars, deployVars>>

\* an iteration in which the seasonal rule writes its adjustment into the
\* weather reading the other rules are given
RuleReturnsSharing ==
    /\ pc = "rules"
    /\ rule_idx <= NumRules
    /\ LET result == RuleResult(rule_idx, weather_data, production_state,
                                equipment_risk, current_date, rule_confidence)
       IN /\ rule_results' = Append(rule_results, result)
          /\ override_required' = (override_required \/ ChecksOverride(result))
    /\ rule_idx' = rule_idx + 1
    /\ weather_data' =
          IF Rules[rule_idx] = "seasonal_baseline_rule"
          THEN [weather_data EXCEPT !.temperature =
                    @ - SeasonalBaselineRule(current_date).temperature_threshold]
          ELSE weather_data
    /\ UNCHANGED <<pc, production_state, current_date, rule_confidence,
                   equipment_risk, raised, consolidated>>
    /\ UNCHANGED <<pipelineVars, primaryVars, deployVars>>

\* one iteration of the for loop, the try branch running to its end
RuleReturns ==
    /\ pc = "rules"
    /\ rule_idx <= NumRules
    /\ LET result == RuleResult(rule_idx, weather_data, production_state,
                                equipment_risk, current_date, rule_confidence)
       IN /\ rule_results' = Append(rule_results, result)
          /\ override_required' = (override_required \/ ChecksOverride(result))
    /\ rule_idx' = rule_idx + 1
    /\ UNCHANGED <<pc, weather_data, production_state, current_date,
                   rule_confidence, equipment_risk, raised, consolidated>>
    /\ UNCHANGED <<pipelineVars, primaryVars, deployVars>>

\* the exception leaves execute_rules: the cycle ends with no result
RuleRaisesAborts ==
    /\ pc = "rules"
    /\ rule_idx <= NumRules
    /\ raised' = raised \cup {Rules[rule_idx]}
    /\ pc' = "done"
    /\ UNCHANGED <<rule_idx, weather_data, production_state, current_date,
                   rule_confidence, equipment_risk, rule_results,
                   override_required, consolidated>>
    /\ UNCHANGED <<pipelineVars, primaryVars, deployVars>>

\* one iteration of the for loop, the rule call raising: except Exception
RuleRaises ==
    /\ pc = "rules"
    /\ rule_idx <= NumRules
    /\ raised' = raised \cup {Rules[rule_idx]}
    /\ rule_idx' = rule_idx + 1
    /\ UNCHANGED <<pc, weather_data, production_state, current_date,
                   rule_confidence, equipment_risk, rule_results,
                   override_required, consolidated>>
    /\ UNCHANGED <<pipelineVars, primaryVars, deployVars>>

\* after the loop: consolidated = self.consolidate_recommendations(...)
Consolidate ==
    /\ pc = "rules"
    /\ rule_idx = NumRules + 1
    /\ consolidated' = ConsolidateRecommendations(rule_results, override_required)
    /\ pc' = "done"
    /\ UNCHANGED <<rule_idx, weather_data, production_state, current_date,
                   rule_confidence, equipment_risk, rule_results,
                   override_required, raised>>
    /\ UNCHANGED <<pipelineVars, primaryVars, deployVars>>

\* execute_rules returns consolidated; its locals are gone
Return ==
    /\ pc = "done"
    /\ pc' = "idle"
    /\ rule_idx' = 1
    /\ weather_data' = NoWeather
    /\ production_state' = "RUNNING"
    /\ current_date' = 10
    /\ rule_confidence' = SteadyConfidence
    /\ equipment_risk' = "LOW"
    /\ rule_results' = <<>>
    /\ override_required' = FALSE
    /\ raised' = {}
    /\ consolidated' = NoAdvisory
    /\ UNCHANGED <<pipelineVars, primaryVars, deployVars>>

(***************************************************************************)
(*             PRIMARY RULES (src/20_logic/heuristics_rules.md)            *)
(* Rainfall in hundredths of an inch, probabilities and efficiency in      *)
(* percent, moisture in percentage points above baseline, the combined     *)
(* safety score in tenths.                                                 *)
(***************************************************************************)

Rainfalls24h == {20, 150, 180, 200}
RainProbabilities == {30, 80}
MoistureExcesses == {0, 5}
AmbientTemperatures == {20, 55, 75, 90, 110}
Efficiencies == {80, 100}
SafetyScores == {1, 8}

PrimaryInputs ==
    [rainfall_last_24h : Rainfalls24h,
     rain_probability_next_6h : RainProbabilities,
     moisture_excess : MoistureExcesses,
     temperature_ambient : AmbientTemperatures,
     current_efficiency : Efficiencies,
     safety_score : SafetyScores]

PrimaryRules == 1..7

\* the Trigger line of each primary rule
PrimaryRuleFires(r, in) ==
    CASE r = 1 -> in.moisture_excess > 3
      [] r = 2 -> in.rainfall_last_24h > 150
      [] r = 3 -> in.rain_probability_next_6h > 70
      [] r = 4 -> in.temperature_ambient > 85
      [] r = 5 -> in.temperature_ambient < 60
      [] r = 6 -> in.current_efficiency < 85
      [] r = 7 -> \/ in.temperature_ambient < 32
                  \/ in.temperature_ambient > 105
                  \/ in.safety_score < 3

FiredRules(in) == {r \in PrimaryRules : PrimaryRuleFires(r, in)}

\* the hold flag and alert level a rule's Actions give; where the document
\* states a range or nothing, every value it allows
PrimaryRuleOutputs(r) ==
    CASE r = 1 -> [hold_release_flag : {"CONTINUE"}, alert_level : {"MEDIUM", "HIGH"}]
      [] r = 2 -> [hold_release_flag : {"HOLD"}, alert_level : {"HIGH"}]
      [] r = 3 -> [hold_release_flag : {"CONTINUE", "RELEASE"}, alert_level : {"MEDIUM"}]
      [] r = 4 -> [hold_release_flag : {"CONTINUE"}, alert_level : {"LOW", "MEDIUM", "HIGH"}]
      [] r = 5 -> [hold_release_flag : {"CONTINUE"}, alert_level : {"LOW", "MEDIUM", "HIGH"}]
      [] r = 6 -> [hold_release_flag : {"CONTINUE"}, alert_level : {"HIGH"}]
      [] r = 7 -> [hold_release_flag : {"HOLD"}, alert_level : {"CRITICAL"}]

\* no conflict resolution: any rule that fired may be the one applied
ApplicableRulesAnyFired(fired) == fired

\* "Rule conflicts: Apply highest priority rule only": Rule 7 is the highest
\* priority and suspends all other rules, Rule 2 overrides all other rules;
\* the document ranks the remaining rules no further
ApplicableRules(fired) ==
    IF 7 \in fired THEN {7}
    ELSE IF 2 \in fired THEN {2}
    ELSE fired

\* the recommendations the algorithm may give for one inputs dict
Recommend(in) ==
    IF FiredRules(in) = {}
    THEN {[hold_release_flag |-> "CONTINUE", alert_level |-> "LOW",
           rationale |-> 0]}
    ELSE UNION {{[hold_release_flag |-> o.hold_release_flag,
                  alert_level |-> o.alert_level,
                  rationale |-> r] : o \in PrimaryRuleOutputs(r)} :
                r \in ApplicableRules(FiredRules(in))}

\* one evaluation of the primary rules; the process runs one evaluation at a
\* time
Advise ==
    /\ pc = "idle"
    /\ recommendations = NoRecommendations
    /\ \E in \in PrimaryInputs :
        /\ inputs' = in
        /\ recommendations' \in Recommend(in)
    /\ UNCHANGED <<engineVars, pipelineVars, deployVars>>

\* the recommendations are returned; the evaluation's dicts are gone
AdviseReturn ==
    /\ recommendations # NoRecommendations
    /\ inputs' = NoInputs
    /\ recommendations' = NoRecommendations
    /\ UNCHANGED <<engineVars, pipelineVars, deployVars>>

(***************************************************************************)
(*                          EXACT RATIONAL NUMBERS                         *)
(* A number is [n, d] with d > 0 in lowest terms; d = 0 stands for BSON    *)
(* null / a missing field.                                                 *)
(***************************************************************************)

RECURSIVE GCD(_, _)
GCD(a, b) == IF b = 0 THEN a ELSE GCD(b, a % b)

Rat(n, d) ==
    LET g == GCD(Abs(n), d)
    IN [n |-> n \div g, d |-> d \div g]

Null == [n |-> 0, d |-> 0]
IsNull(x) == x.d = 0
Zero == Rat(0, 1)
One == Rat(1, 1)

RatAdd(a, b) == Rat(a.n * b.d + b.n * a.d, a.d * b.d)
RatSub(a, b) == Rat(a.n * b.d - b.n * a.d, a.d * b.d)
RatMul(a, b) == Rat(a.n * b.n, a.d * b.d)
\* b # 0
RatDiv(a, b) ==
    IF b.n > 0 THEN Rat(a.n * b.d, a.d * b.n) ELSE Rat(-(a.n * b.d), a.d * (-b.n))
RatLt(a, b) == a.n * b.d < b.n * a.d
RatLe(a, b) == a.n * b.d <= b.n * a.d

\* BSON comparison order puts null below every number
BsonGt(a, b) ==
    IF IsNull(a) THEN FALSE
    ELSE IF IsNull(b) THEN TRUE
    ELSE RatLt(b, a)

BsonLt(a, b) ==
    IF IsNull(b) THEN FALSE
    ELSE IF IsNull(a) THEN TRUE
    ELSE RatLt(a, b)

\* arithmetic expressions give null as soon as one operand is null
ExprAdd(a, b) == IF IsNull(a) \/ IsNull(b) THEN Null ELSE RatAdd(a, b)
ExprSubtract(a, b) == IF IsNull(a) \/ IsNull(b) THEN Null ELSE RatSub(a, b)
ExprMultiply(a, b) == IF IsNull(a) \/ IsNull(b) THEN Null ELSE RatMul(a, b)

\* $min and $max skip null operands
ExprMin(a, b) ==
    IF IsNull(a) THEN b
    ELSE IF IsNull(b) THEN a
    ELSE IF RatLt(b, a) THEN b ELSE a

ExprMax(a, b) ==
    IF IsNull(a) THEN b
    ELSE IF IsNull(b) THEN a
    ELSE IF RatLt(a, b) THEN b ELSE a

\* f: a function from documents to numbers
\* the sum of f over its domain, added up value by value: each value of V
\* times the number of documents that have it
RECURSIVE SumByValue(_, _)
SumByValue(f, V) ==
    IF V = {} THEN Zero
    ELSE LET v == CHOOSE v \in V : TRUE
             count == Cardinality({x \in DOMAIN f : f[x] = v})
         IN RatAdd(RatMul(v, Rat(count, 1)), SumByValue(f, V \ {v}))

SumOf(f) == SumByValue(f, {f[x] : x \in DOMAIN f})

\* the $sum accumulator: non-numeric values are skipped, nothing gives 0
AccSum(f) ==
    LET numeric == {x \in DOMAIN f : ~IsNull(f[x])}
    IN SumOf([x \in numeric |-> f[x]])

\* the $avg accumulator: non-numeric values are skipped, nothing gives null
AccAvg(f) ==
    LET numeric == {x \in DOMAIN f : ~IsNull(f[x])}
    IN IF numeric = {} THEN Null
       ELSE RatDiv(SumOf([x \in numeric |-> f[x]]), Rat(Cardinality(numeric), 1))

\* a merge that inserts every document and replaces none
MergeInsertOnly(collection, docs) == collection \cup docs

\* $merge with whenMatched: "replace", whenNotMatched: "insert", on _id
Merge(collection, docs) ==
    {c \in collection : \A d \in docs : d._id # c._id} \cup docs

(***************************************************************************)
(*       JOIN PIPELINE: timerlogs x weather_historical -> events           *)
(* Time is counted in hours from 2023-09-01T00:00Z.                        *)
(***************************************************************************)

\* bounds of the model
MaxEvents == 3
MaxClock == 3

Locations == {1, 2}

\* production cycles that can be logged: location, time, cycle duration
TimerLogInputs ==
    {[_id |-> <<loc, t, dur>>, locationId |-> loc, createdAt |-> t,
      time |-> dur, part_time |-> 100, status |-> "Gain"] :
        loc \in {1}, t \in {0, 144, 162, 168}, dur \in {100}}
    \cup
    {[_id |-> <<loc, t, dur>>, locationId |-> loc, createdAt |-> t,
      time |-> dur, part_time |-> 100, status |-> "Loss"] :
        loc \in Locations, t \in {168}, dur \in {125}}
    \cup
    {[_id |-> <<1, 162, 85>>, locationId |-> 1, createdAt |-> 162,
      time |-> 100, part_time |-> 85, status |-> "Gain"],
     [_id |-> <<1, 150, 90>>, locationId |-> 1, createdAt |-> 150,
      time |-> 90, part_time |-> 100, status |-> "Hold"],
     [_id |-> <<1, 144, -100>>, locationId |-> 1, createdAt |-> 144,
      time |-> -100, part_time |-> 100, status |-> "Gain"]}

\* a weather snapshot taken at hour t, minute m
SnapshotAt(loc, t, m, rain, hum) ==
    [location_id |-> loc, timestamp |-> t, minute |-> m,
     precipitation_inches |-> rain, humidity_percent |-> hum]

Snapshot(loc, t, rain, hum) == SnapshotAt(loc, t, 0, rain, hum)

\* the time of a snapshot and of a full hour, in minutes
At(w) == 60 * w.timestamp + w.minute
Hour(t) == 60 * t

\* the history the weather collection holds (it is filled from outside):
\* a wet spell at location 1 around hour 165, one shower at location 2
WeatherHistories ==
    { {Snapshot(1, 120, Rat(1, 10), Rat(20, 1)),
       Snapshot(1, 144, Rat(3, 10), Rat(95, 1)),
       Snapshot(1, 162, Rat(3, 5), Rat(95, 1)),
       Snapshot(1, 165, Rat(5, 2), Rat(95, 1)),
       Snapshot(1, 170, Rat(1, 1), Rat(40, 1)),
       Snapshot(2, 165, Rat(1, 2), Rat(20, 1))} }

\* Stage 1 $match
Stage1Match(log) ==
    /\ log.createdAt >= 0
    /\ log.createdAt < 720
    /\ log.status \in {"Gain", "Loss"}

\* the k documents of S with the latest timestamps ($sort -1, $limit k);
\* the snapshots of one location have distinct times
Latest(S, k) ==
    LET times == {At(y) : y \in S}
    IN IF Cardinality(times) <= k THEN S
       ELSE LET cut == CHOOSE t \in times :
                          Cardinality({u \in times : u >= t}) = k
            IN {x \in S : At(x) >= cut}

\* Stage 6 $lookup into weather_historical
LookupLimit == 48

WeatherLookup(log, history) ==
    Latest({w \in history :
                /\ w.location_id = log.locationId
                /\ At(w) >= Hour(log.createdAt - 24)
                /\ At(w) <= Hour(log.createdAt)},
           LookupLimit)

\* Stage 7 efficiency_ratio: the $cond looks at the standard duration and
\* the $divide divides by the actual one; $divide by 0 is an error that ends
\* the aggregate command
DivideByZero(log) == log.part_time > 0 /\ log.time = 0

EfficiencyRatio(log) ==
    IF log.part_time > 0 THEN RatDiv(Rat(log.part_time, 1), Rat(log.time, 1))
    ELSE One

\* Stage 8 weather_summary
Rainfall24hTotal(data) == AccSum([w \in data |-> w.precipitation_inches])
Humidity24hAvg(data) == AccAvg([w \in data |-> w.humidity_percent])
Rainfall6hTotal(log, data) ==
    AccSum([w \in {x \in data : At(x) >= Hour(log.createdAt - 6)}
               |-> w.precipitation_inches])

\* Stages 2-9 for one timerlog: the canonical event
Normalize(log, history, clock) ==
    LET data == WeatherLookup(log, history)
    IN [_id |-> log._id,
        event_timestamp |-> log.createdAt,
        site_id |-> log.locationId,
        efficiency_ratio |-> EfficiencyRatio(log),
        rainfall_24h |-> Rainfall24hTotal(data),
        humidity_24h_avg |-> Humidity24hAvg(data),
        rainfall_6h |-> Rainfall6hTotal(log, data),
        created_at |-> clock]

JoinOutput(logs, history, clock) ==
    {Normalize(l, history, clock) : l \in {x \in logs : Stage1Match(x)}}

\* the validator of weather_production_events: the required fields are
\* always in the output of Stage 9, so what a document of the join can fail
\* is the range of metrics.efficiency_ratio
Validator(doc) ==
    /\ RatLe(Zero, doc.efficiency_ratio)
    /\ RatLe(doc.efficiency_ratio, Rat(3, 1))

ValidationAction == "warn"

\* a collection that turns away every document failing its validator
AdmittedOnlyValid(docs) == {d \in docs : Validator(d)}

\* the documents of a write the collection takes
Admitted(docs) ==
    {d \in docs : ValidationAction = "warn" \/ Validator(d)}

(***************************************************************************)
(*     FEATURE BUILDER: rolling windows over weather_production_events     *)
(***************************************************************************)

\* a range window whose lower end is left out
WindowExclusive(e, events, lo, hi) ==
    {d \in events :
        /\ d.site_id = e.site_id
        /\ d.event_timestamp > e.event_timestamp + lo
        /\ d.event_timestamp <= e.event_timestamp + hi}

\* a window over the whole collection, with no partition by site
WindowAllSites(e, events, lo, hi) ==
    {d \in events :
        /\ d.event_timestamp >= e.event_timestamp + lo
        /\ d.event_timestamp <= e.event_timestamp + hi}

\* $setWindowFields: partitionBy site_id, range window [lo, hi] hours
\* around the document's event_timestamp, both ends included
Window(e, events, lo, hi) ==
    {d \in events :
        /\ d.site_id = e.site_id
        /\ d.event_timestamp >= e.event_timestamp + lo
        /\ d.event_timestamp <= e.event_timestamp + hi}

\* a short window centred on the document: range [-6, 6]
ShortWindowCentred(e, events) == Window(e, events, -6, 6)

\* a baseline that runs up to the document: range [-168, 0]
BaselineWindowToNow(e, events) == Window(e, events, -168, 0)

ShortWindow(e, events) == Window(e, events, -6, 0)
DayWindow(e, events) == Window(e, events, -24, 0)
BaselineWindow(e, events) == Window(e, events, -168, -24)

\* Stage 2 output fields
RollingFields(e, events) ==
    [efficiency_6h_avg |->
        AccAvg([d \in ShortWindow(e, events) |-> d.efficiency_ratio]),
     rainfall_6h_rolling |->
        AccSum([d \in ShortWindow(e, events) |-> d.rainfall_6h]),
     efficiency_24h_avg |->
        AccAvg([d \in DayWindow(e, events) |-> d.efficiency_ratio]),
     humidity_24h_trend |->
        AccAvg([d \in DayWindow(e, events) |-> d.humidity_24h_avg]),
     efficiency_7d_baseline |->
        AccAvg([d \in BaselineWindow(e, events) |-> d.efficiency_ratio]),
     production_events_6h |-> Cardinality(ShortWindow(e, events))]

\* the fallback of the degradation left null
EfficiencyDegradationElseNull(baseline, short) ==
    IF BsonGt(baseline, Zero)
    THEN RatDiv(RatSub(baseline, short), baseline)
    ELSE Null

\* the operands of the subtraction exchanged
EfficiencyDegradationSwapped(baseline, short) ==
    IF BsonGt(baseline, Zero)
    THEN RatDiv(RatSub(short, baseline), baseline)
    ELSE Zero

\* Stage 3 indicators
EfficiencyDegradation(baseline, short) ==
    IF BsonGt(baseline, Zero)
    THEN RatDiv(RatSub(baseline, short), baseline)
    ELSE Zero

\* the rainfall weighted without the cap
RainfallPartUncapped(rainfall) == ExprMultiply(rainfall, Rat(4, 10))

RainfallPart(rainfall) ==
    ExprMultiply(ExprMin(rainfall, Rat(2, 1)), Rat(4, 10))

HumidityPart(humidity) ==
    ExprMultiply(ExprMax(ExprSubtract(Rat(90, 1), humidity),
                         ExprSubtract(humidity, Rat(30, 1))),
                 Rat(1, 100))

WeatherSeverityScore(rainfall, humidity) ==
    ExprAdd(RainfallPart(rainfall), HumidityPart(humidity))

\* the two conditions joined by "or"
ProductionAnomalyFlagEither(short, rainfall) ==
    BsonLt(short, Rat(85, 100)) \/ BsonGt(rainfall, Rat(1, 2))

ProductionAnomalyFlag(short, rainfall) ==
    BsonLt(short, Rat(85, 100)) /\ BsonGt(rainfall, Rat(1, 2))

Indicators(r) ==
    [efficiency_degradation_6h |->
        EfficiencyDegradation(r.efficiency_7d_baseline, r.efficiency_6h_avg),
     weather_severity_score |->
        WeatherSeverityScore(r.rainfall_6h_rolling, r.humidity_24h_trend),
     production_anomaly_flag |->
        ProductionAnomalyFlag(r.efficiency_6h_avg, r.rainfall_6h_rolling)]

\* a $match on the thresholds of weather_correlation (0.05 and 0.3)
Stage4MatchLowThresholds(ind) ==
    \/ BsonGt(ind.efficiency_degradation_6h, Rat(5, 100))
    \/ BsonGt(ind.weather_severity_score, Rat(3, 10))
    \/ ind.production_anomaly_flag

\* Stage 4 $match
Stage4Match(ind) ==
    \/ BsonGt(ind.efficiency_degradation_6h, Rat(1, 10))
    \/ BsonGt(ind.weather_severity_score, Rat(6, 10))
    \/ ind.production_anomaly_flag

WeatherCorrelation(ind) ==
    IF /\ BsonGt(ind.efficiency_degradation_6h, Rat(5, 100))
       /\ BsonGt(ind.weather_severity_score, Rat(3, 10))
    THEN "LIKELY_WEATHER_RELATED"
    ELSE "INVESTIGATE_OTHER_CAUSES"

\* the branches tried in the order degradation, anomaly flag, severity
RecommendedActionDegradationFirst(ind) ==
    IF BsonGt(ind.efficiency_degradation_6h, Rat(15, 100))
    THEN "SCHEDULE_MAINTENANCE_CHECK"
    ELSE IF ind.production_anomaly_flag THEN "IMMEDIATE_PARAMETER_ADJUSTMENT"
    ELSE IF BsonGt(ind.weather_severity_score, Rat(7, 10))
         THEN "CONSIDER_PRODUCTION_HOLD"
    ELSE "CONTINUE_MONITORING"

RecommendedAction(ind) ==
    IF ind.production_anomaly_flag THEN "IMMEDIATE_PARAMETER_ADJUSTMENT"
    ELSE IF BsonGt(ind.efficiency_degradation_6h, Rat(15, 100))
         THEN "SCHEDULE_MAINTENANCE_CHECK"
    ELSE IF BsonGt(ind.weather_severity_score, Rat(7, 10))
         THEN "CONSIDER_PRODUCTION_HOLD"
    ELSE "CONTINUE_MONITORING"

\* Stage 5 $project
Project(e, r, ind, clock) ==
    [_id |-> e._id,
     event_timestamp |-> e.event_timestamp,
     site_id |-> e.site_id,
     efficiency_current |-> e.efficiency_ratio,
     efficiency_6h_avg |-> r.efficiency_6h_avg,
     efficiency_baseline |-> r.efficiency_7d_baseline,
     rainfall_6h |-> r.rainfall_6h_rolling,
     humidity_trend |-> r.humidity_24h_trend,
     severity_score |-> ind.weather_severity_score,
     efficiency_degradation_pct |->
        ExprMultiply(ind.efficiency_degradation_6h, Rat(100, 1)),
     weather_correlation |-> WeatherCorrelation(ind),
     recommended_action |-> RecommendedAction(ind),
     analysis_timestamp |-> clock]

\* Stages 1-3: each document with its window fields and indicators
Stage3(e, events) ==
    LET r == RollingFields(e, events)
    IN [doc |-> e, rolling |-> r, indicators |-> Indicators(r)]

\* Stages 1-5 over the whole collection
FeatureOutput(events, clock) ==
    {Project(x.doc, x.rolling, x.indicators, clock) :
        x \in {y \in {Stage3(e, events) : e \in events} :
                  Stage4Match(y.indicators)}}

(***************************************************************************)
(*        DEPLOYMENT: deploy.sh, main "deploy" from deploy_application     *)
(***************************************************************************)

CoreServices == {"mongodb", "redis", "zookeeper", "kafka"}
ApplicationServices ==
    {"weather-pipeline", "production-processor", "correlation-engine",
     "api-gateway"}
FrontendServices == {"dashboard", "nginx"}
MonitoringServices ==
    {"prometheus", "grafana", "elasticsearch", "logstash", "kibana"}
BackupServices == {"backup"}

Up(services) == [op |-> "up", services |-> services]
WaitFor(service) == [op |-> "wait", services |-> {service}]

\* the statements of deploy_application that start or wait
DeployApplication ==
    <<Up(CoreServices),
      WaitFor("mongodb"), WaitFor("redis"), WaitFor("kafka"),
      Up(ApplicationServices),
      WaitFor("weather-pipeline"), WaitFor("production-processor"),
      WaitFor("correlation-engine"), WaitFor("api-gateway"),
      Up(FrontendServices),
      Up(MonitoringServices),
      Up(BackupServices)>>

WaitedServices ==
    UNION {DeployApplication[i].services :
              i \in {j \in 1..Len(DeployApplication) :
                         DeployApplication[j].op = "wait"}}

\* local max_attempts=30
MaxAttempts == 30

\* the State column docker-compose ps prints for a service, word by word
\* ("unhealthy" is the letters "un" followed by "healthy")
UpHealthy == <<"Up", "(", "healthy", ")">>
UpUnhealthy == <<"Up", "(", "un", "healthy", ")">>
UpStarting == <<"Up", "(", "health:", "starting", ")">>
Exited == <<"Exit", "1">>
NoLine == <<>>

PsOutputs == {UpHealthy, UpUnhealthy, UpStarting, Exited}

\* grep -q "healthy\|Up": the line holds the letters "healthy" or "Up"
Grep(line) == \E i \in 1..Len(line) : line[i] \in {"healthy", "Up"}

NoService == "none"

DeployInit ==
    /\ step = 1
    /\ attempt = 0
    /\ checks = 0
    /\ started = {}
    /\ observed = [s \in WaitedServices |-> NoLine]
    /\ failed = NoService
    /\ outcome = "running"

InDeployApplication ==
    outcome = "running" /\ step <= Len(DeployApplication)

\* docker-compose up -d <services>; a non-zero status ends the script
\* (set -e)
ComposeUp ==
    /\ InDeployApplication
    /\ DeployApplication[step].op = "up"
    /\ \E ok \in BOOLEAN :
        IF ok
        THEN /\ started' = started \cup DeployApplication[step].services
             /\ step' = step + 1
             /\ outcome' = outcome
        ELSE /\ outcome' = "aborted"
             /\ UNCHANGED <<started, step>>
    /\ UNCHANGED <<attempt, checks, observed, failed>>
    /\ UNCHANGED <<engineVars, pipelineVars, primaryVars>>

\* local service_name=$1 of the wait_for_service at the current statement
ServiceName == CHOOSE s \in DeployApplication[step].services : TRUE

\* wait_for_service "$service" is entered: local attempt=1
WaitForServiceEnter ==
    /\ InDeployApplication
    /\ DeployApplication[step].op = "wait"
    /\ attempt = 0
    /\ attempt' = 1
    /\ checks' = 0
    /\ UNCHANGED <<step, started, observed, failed, outcome>>
    /\ UNCHANGED <<engineVars, pipelineVars, primaryVars>>

\* one iteration of the while loop: the status is read and grepped; on a
\* match the function returns 0, else sleep 10 and ((attempt++))
StatusCheck ==
    /\ InDeployApplication
    /\ attempt >= 1
    /\ attempt <= MaxAttempts
    /\ \E line \in PsOutputs :
        IF Grep(line)
        THEN /\ observed' = [observed EXCEPT ![ServiceName] = line]
             /\ attempt' = 0
             /\ checks' = 0
             /\ step' = step + 1
        ELSE /\ attempt' = attempt + 1
             /\ checks' = checks + 1
             /\ UNCHANGED <<observed, step>>
    /\ UNCHANGED <<started, failed, outcome>>
    /\ UNCHANGED <<engineVars, pipelineVars, primaryVars>>

\* a wait_for_service that returns 1 to a caller that goes on
WaitForServiceFailsIgnored ==
    /\ InDeployApplication
    /\ attempt > MaxAttempts
    /\ failed' = ServiceName
    /\ attempt' = 0
    /\ step' = step + 1
    /\ UNCHANGED <<checks, started, observed, outcome>>
    /\ UNCHANGED <<engineVars, pipelineVars, primaryVars>>

\* the loop ends: return 1, and set -e ends the script with that status
WaitForServiceFails ==
    /\ InDeployApplication
    /\ attempt > MaxAttempts
    /\ failed' = ServiceName
    /\ outcome' = "aborted"
    /\ UNCHANGED <<step, attempt, checks, started, observed>>
    /\ UNCHANGED <<engineVars, pipelineVars, primaryVars>>

\* verify_deployment: its checks only log, but
\* ERROR_COUNT=$(docker-compose logs ... | grep -i error | wc -l) has status
\* 1 under pipefail when no line of the logs holds "error", and set -e ends
\* the script there
VerifyDeployment ==
    /\ outcome = "running"
    /\ step = Len(DeployApplication) + 1
    /\ \E errorLines \in BOOLEAN :
        IF errorLines
        THEN step' = step + 1 /\ outcome' = outcome
        ELSE outcome' = "aborted" /\ step' = step
    /\ UNCHANGED <<attempt, checks, started, observed, failed>>
    /\ UNCHANGED <<engineVars, pipelineVars, primaryVars>>

\* show_deployment_info; log_success "Deployment completed successfully!"
Completed ==
    /\ outcome = "running"
    /\ step = Len(DeployApplication) + 2
    /\ outcome' = "completed"
    /\ UNCHANGED <<step, attempt, checks, started, observed, failed>>
    /\ UNCHANGED <<engineVars, pipelineVars, primaryVars>>

\* a production cycle ends and is logged (timerlogs is append-only)
LogCycle ==
    /\ Cardinality(timerlogs) < MaxEvents
    /\ \E log \in TimerLogInputs \ timerlogs :
        timerlogs' = timerlogs \cup {log}
    /\ UNCHANGED <<weather_historical, weather_production_events,
                   production_weather_features, now, join_error>>
    /\ UNCHANGED <<engineVars, primaryVars, deployVars>>

\* agg_join_production_weather.js: the aggregate over timerlogs, $merge'd
\* into weather_production_events; new Date() is read once per run
RunJoin ==
    /\ now < MaxClock
    /\ LET matched == {l \in timerlogs : Stage1Match(l)}
           failing == {l \in matched : DivideByZero(l)}
       IN IF failing = {}
          THEN /\ weather_production_events' =
                    Merge(weather_production_events,
                          Admitted(JoinOutput(timerlogs, weather_historical,
                                              now)))
               /\ join_error' = FALSE
          ELSE \* the aggregate command ends with the $divide error; $merge
               \* has written what it flushed before it, some part of the
               \* documents that were not the failing ones
               /\ \E flushed \in SUBSET (matched \ failing) :
                    weather_production_events' =
                        Merge(weather_production_events,
                              Admitted(JoinOutput(flushed, weather_historical,
                                                  now)))
               /\ join_error' = TRUE
    /\ now' = now + 1
    /\ UNCHANGED <<timerlogs, weather_historical, production_weather_features>>
    /\ UNCHANGED <<engineVars, primaryVars, deployVars>>

\* rolling_weather_windows.js: the aggregate over weather_production_events,
\* $merge'd into production_weather_features
RunFeatureBuilder ==
    /\ now < MaxClock
    /\ production_weather_features' =
          Merge(production_weather_features,
                FeatureOutput(weather_production_events, now))
    /\ now' = now + 1
    /\ UNCHANGED <<timerlogs, weather_historical, weather_production_events,
                   join_error>>
    /\ UNCHANGED <<engineVars, primaryVars, deployVars>>

PipelineInit ==
    /\ timerlogs = {}
    /\ weather_historical \in WeatherHistories
    /\ weather_production_events = {}
    /\ production_weather_features = {}
    /\ now = 0
    /\ join_error = FALSE

InitFeatures == EngineInit /\ PipelineInit /\ DeployInit

NextFeatures == LogCycle \/ RunJoin \/ RunFeatureBuilder

SpecFeatures == InitFeatures /\ [][NextFeatures]_vars

(***************************************************************************)
(*   The join pipeline on its own: batches with durations of every kind    *)
(*   and a location whose weather is polled every 15 minutes.              *)
(***************************************************************************)

DenseLocation == 3
PollingMinutes == {0, 15, 30, 45}

\* the cycles of a batch: a regular one, one four times faster than the
\* standard, one with a negative duration, one with duration 0, one with
\* neither duration nor standard, one at the densely polled location
JoinLogInputs ==
    {[_id |-> <<1, 168, 100>>, locationId |-> 1, createdAt |-> 168,
      time |-> 100, part_time |-> 100, status |-> "Gain"],
     [_id |-> <<1, 168, 25>>, locationId |-> 1, createdAt |-> 168,
      time |-> 25, part_time |-> 100, status |-> "Gain"],
     [_id |-> <<1, 144, -100>>, locationId |-> 1, createdAt |-> 144,
      time |-> -100, part_time |-> 100, status |-> "Gain"],
     [_id |-> <<1, 168, 0>>, locationId |-> 1, createdAt |-> 168,
      time |-> 0, part_time |-> 100, status |-> "Loss"],
     [_id |-> <<1, 160, 0>>, locationId |-> 1, createdAt |-> 160,
      time |-> 0, part_time |-> 0, status |-> "Gain"],
     [_id |-> <<DenseLocation, 168, 100>>, locationId |-> DenseLocation,
      createdAt |-> 168, time |-> 100, part_time |-> 100, status |-> "Gain"]}

\* hours 144 to 168 at the densely polled location: a hundredth of an inch
\* in every quarter of an hour, humid until hour 156 and drier after
DenseHistory ==
    {SnapshotAt(DenseLocation, t, m, Rat(1, 100),
                IF t < 156 THEN Rat(90, 1) ELSE Rat(50, 1)) :
        t \in 144..167, m \in PollingMinutes}
    \cup {SnapshotAt(DenseLocation, 168, 0, Rat(1, 100), Rat(50, 1))}

JoinHistories == {h \cup DenseHistory : h \in WeatherHistories}

LogBatch ==
    /\ Cardinality(timerlogs) < MaxEvents
    /\ \E log \in JoinLogInputs \ timerlogs :
        timerlogs' = timerlogs \cup {log}
    /\ UNCHANGED <<weather_historical, weather_production_events,
                   production_weather_features, now, join_error>>
    /\ UNCHANGED <<engineVars, primaryVars, deployVars>>

InitJoin ==
    /\ EngineInit
    /\ timerlogs = {}
    /\ weather_historical \in JoinHistories
    /\ weather_production_events = {}
    /\ production_weather_features = {}
    /\ now = 0
    /\ join_error = FALSE
    /\ DeployInit

NextJoin == LogBatch \/ RunJoin

SpecJoin == InitJoin /\ [][NextJoin]_vars

PipelineIdle ==
    /\ timerlogs = {}
    /\ weather_historical = {}
    /\ weather_production_events = {}
    /\ production_weather_features = {}
    /\ now = 0
    /\ join_error = FALSE

Init == EngineInit /\ PipelineIdle /\ DeployInit

Next ==
    \/ StartCycle \/ RuleReturns \/ RuleRaises \/ Consolidate \/ Return
    \/ Advise \/ AdviseReturn

Spec == Init /\ [][Next]_vars

\* the deployment script on its own
InitDeploy == EngineInit /\ PipelineIdle /\ DeployInit

NextDeploy ==
    \/ ComposeUp \/ WaitForServiceEnter \/ StatusCheck \/ WaitForServiceFails
    \/ VerifyDeployment \/ Completed

SpecDeploy == InitDeploy /\ [][NextDeploy]_vars

\* the shell runs the script statement after statement
SpecDeployFair == SpecDeploy /\ WF_vars(NextDeploy)

(***************************************************************************)
(*                       PROPERTIES OF THE RULE ENGINE                     *)
(***************************************************************************)

SafetyRuleName == Rules[NumRules]

Returned(name) == \E k \in 1..Len(rule_results) : rule_results[k].rule_name = name

\* the safety governor's state of the cycle: the safety_level the safety rule
\* returned
GovernorState ==
    IF Returned(SafetyRuleName)
    THEN (CHOOSE r \in {rule_results[k] : k \in 1..Len(rule_results)} :
              r.rule_name = SafetyRuleName).safety_level
    ELSE "UNKNOWN"

\* C1: whenever the governor's state of a cycle is CRITICAL, the consolidated
\* result takes the safety-override path: safe-baseline parameters,
\* override_active true, alert_level CRITICAL, whatever the other rules
\* produced.
C1_SafetyDominance ==
    (pc = "done" /\ GovernorState = "CRITICAL") =>
        /\ consolidated.path = "SAFETY_OVERRIDE"
        /\ consolidated.parameters = "SAFE_BASELINE"
        /\ consolidated.override_active
        /\ consolidated.alert_level = "CRITICAL"

\* C2: each of temperature above the hard maximum, humidity above the hard
\* maximum, wind above 40 mph, precipitation above 2.0 in, or an equipment
\* limit exceeded puts the governor in CRITICAL on its own.
C2_CriticalTriggers ==
    (/\ Returned(SafetyRuleName)
     /\ \/ weather_data.temperature > MaxTemperature
        \/ weather_data.humidity > MaxHumidity
        \/ weather_data.wind_speed > StormWindSpeed
        \/ weather_data.precipitation > StormPrecipitation
        \/ equipment_risk = "HIGH")
    => GovernorState = "CRITICAL"

\* C3: a rule that raises never aborts the cycle: the loop goes on, at the end
\* every rule of the registry has been evaluated (it raised or it returned,
\* never both), a rule that raised contributes no result, the safety rule has
\* been evaluated, and a consolidated result is produced from the rules that
\* returned.
C3_RuleIsolation ==
    /\ \A r \in 1..NumRules : Rules[r] \in raised => ~Returned(Rules[r])
    /\ pc = "rules" => ENABLED (RuleReturns \/ RuleRaises \/ Consolidate)
    /\ pc = "done" =>
        /\ \A r \in 1..NumRules : Rules[r] \in raised \/ Returned(Rules[r])
        /\ Len(rule_results) + Cardinality(raised) = NumRules
        /\ consolidated.path \in {"NORMAL", "SAFETY_OVERRIDE"}
        /\ consolidated.path = "NORMAL" =>
             consolidated.contributing_rules =
                {Rules[r] : r \in 1..NumRules} \ raised

\* a cycle in which two rules raised, the safety rule returned CRITICAL after
\* them and the cycle ended with a consolidated result
C3_Witness ==
    /\ pc = "done"
    /\ raised = {"humidity_curing_rule", "predictive_mitigation_rule"}
    /\ Returned(SafetyRuleName)
    /\ GovernorState = "CRITICAL"
    /\ consolidated.path # "NONE"

\* the result dict the named rule returned in this cycle
ResultOf(name) ==
    CHOOSE r \in {rule_results[k] : k \in 1..Len(rule_results)} :
        r.rule_name = name

\* the arguments of the cycle
CycleArguments ==
    <<weather_data, production_state, equipment_risk, current_date,
      rule_confidence>>

C14_ConservativeConfidence ==
    (pc = "done" /\ consolidated.path = "NORMAL") =>
        LET scoring == {r \in 1..3 : Rules[r] \notin raised}
        IN /\ \A k \in 1..Len(rule_results) :
                rule_results[k].confidence_score # NoNumber =>
                    consolidated.confidence_score
                        <= rule_results[k].confidence_score
           /\ \A r \in scoring :
                consolidated.confidence_score <= rule_confidence[r]
           /\ scoring # {} =>
                \E r \in scoring :
                    consolidated.confidence_score = rule_confidence[r]

\* confidences 0.9, 0.5, 0.8 with the temperature rule (0.5) raising: the
\* advisory carries 0.8, the minimum of the two rules that contributed
C14_Witness ==
    /\ pc = "done"
    /\ rule_confidence = <<9, 5, 8>>
    /\ raised = {"temperature_efficiency_rule"}
    /\ consolidated.path = "NORMAL"
    /\ consolidated.confidence_score = 8

C16_SeasonalSensitivityUsed ==
    /\ Returned("seasonal_baseline_rule") =>
        LET r == ResultOf("seasonal_baseline_rule")
        IN /\ r.humidity_sensitivity =
                (IF current_date \in {6, 7, 8} THEN 13
                 ELSE IF current_date \in {12, 1, 2} THEN 8 ELSE 11)
           /\ r.adjustment_factor = NoNumber
           /\ r.dryer_adjustment = NoNumber
           /\ r.cooling_adjustment = NoNumber
    /\ (Returned("humidity_curing_rule")
            \/ Returned("temperature_efficiency_rule")) =>
        Returned("seasonal_baseline_rule")

C20_ElevatedPassesThrough ==
    GovernorState = "HIGH" =>
        LET r == ResultOf(SafetyRuleName)
        IN /\ weather_data.humidity > MaxHumidity
           /\ r.production_status = production_state
           /\ r.override_actions \cap {"PRODUCTION_HOLD", "FACILITY_SECURE"} = {}
           /\ \A k \in 1..Len(rule_results) :
                rule_results[k].production_status
                    \notin {"HOLD", "HOLD_RECOMMENDED"}
           /\ ~override_required
           /\ pc = "done" =>
                /\ consolidated.path = "NORMAL"
                /\ consolidated.parameters = "RULE_DERIVED"
                /\ ~consolidated.override_active

\* a finished cycle at 90% humidity and 90 F: enhanced monitoring ordered,
\* status RUNNING passed on, the temperature rule's adjustment kept
C20_Witness ==
    /\ pc = "done"
    /\ raised = {}
    /\ GovernorState = "HIGH"
    /\ weather_data.temperature = 90
    /\ ResultOf(SafetyRuleName).override_actions = {"ENHANCED_MONITORING"}
    /\ ResultOf(SafetyRuleName).production_status = "RUNNING"
    /\ ResultOf("temperature_efficiency_rule").production_status
          = "ADJUST_PARAMETERS"
    /\ consolidated.parameters = "RULE_DERIVED"

\* C21: once a check of the safety rule has set the level to CRITICAL, no
\* later check of the same evaluation lowers it: whether CRITICAL was reached
\* at the temperature check, at the humidity check or at the storm check, the
\* level the rule returns for the cycle is CRITICAL, whatever the humidity,
\* storm and equipment checks that follow find.
C21_CriticalIsSticky ==
    Returned(SafetyRuleName) =>
        LET afterTemperature == SafetyAfterTemperature(weather_data)
            afterHumidity == SafetyAfterHumidity(weather_data, afterTemperature)
            afterStorm == SafetyAfterStorm(weather_data, afterHumidity)
        IN /\ afterTemperature = "CRITICAL" => GovernorState = "CRITICAL"
           /\ afterHumidity = "CRITICAL" => GovernorState = "CRITICAL"
           /\ afterStorm = "CRITICAL" => GovernorState = "CRITICAL"

\* 110 F sets CRITICAL at the first check; 90% humidity, calm dry weather and
\* stressed equipment follow, and the rule still returns CRITICAL
C21_Witness ==
    /\ Returned(SafetyRuleName)
    /\ weather_data.temperature = 110
    /\ weather_data.humidity = 90
    /\ weather_data.wind_speed = 10
    /\ weather_data.precipitation = 0
    /\ equipment_risk = "HIGH"
    /\ GovernorState = "CRITICAL"
    /\ ResultOf(SafetyRuleName).override_actions =
          {"PRODUCTION_HOLD", "ENHANCED_MONITORING", "REDUCE_LOAD"}

(***************************************************************************)
(*                       PROPERTIES OF THE PIPELINES                       *)
(***************************************************************************)

\* what Stages 2 and 3 compute for event e over the collection as it is
Staged(e) == Stage3(e, weather_production_events)

C5_DegradationFormula ==
    \A e \in weather_production_events :
        LET x == Staged(e)
            b == x.rolling.efficiency_7d_baseline
            s == x.rolling.efficiency_6h_avg
            g == x.indicators.efficiency_degradation_6h
        IN /\ (~IsNull(b) /\ RatLt(Zero, b)) =>
                /\ ~IsNull(g)
                /\ RatMul(g, b) = RatSub(b, s)
                /\ (\A d \in weather_production_events :
                        RatLe(Zero, d.efficiency_ratio)) => RatLe(g, One)
           /\ (IsNull(b) \/ RatLe(b, Zero)) => g = Zero

\* an event 20% below a baseline average of 1, written by the feature builder
\* with a degradation of 20 percent
C5_Witness ==
    \E e \in weather_production_events :
        /\ Staged(e).rolling.efficiency_7d_baseline = One
        /\ Staged(e).rolling.efficiency_6h_avg = Rat(4, 5)
        /\ Staged(e).indicators.efficiency_degradation_6h = Rat(1, 5)
        /\ \E f \in production_weather_features :
            /\ f._id = e._id
            /\ f.efficiency_degradation_pct = Rat(20, 1)

\* the feature builder has already run on the events as they are now
AlreadyBuilt ==
    LET out == FeatureOutput(weather_production_events, 0)
    IN /\ out # {}
       /\ \E c \in 0..(now - 1) :
            {[f EXCEPT !.analysis_timestamp = c] : f \in out}
                \subseteq production_weather_features

WithoutTimestamp(f) == [f EXCEPT !.analysis_timestamp = 0]

\* C6 as claimed: running the feature builder again on the same events
\* writes records in which no field differs and leaves the features
\* collection as the first run left it.
C6_RerunChangesNothing ==
    [][(RunFeatureBuilder /\ AlreadyBuilt) =>
          production_weather_features' = production_weather_features]_vars

\* C6 as amended: running the feature builder again on the same events
\* leaves the features collection with the same records, one per _id, in
\* which no field other than analysis_timestamp (the wall-clock time of the
\* run) differs.
C6_RerunChangesOnlyTimestamp ==
    [][(RunFeatureBuilder /\ AlreadyBuilt) =>
          /\ {WithoutTimestamp(f) : f \in production_weather_features'}
                = {WithoutTimestamp(f) : f \in production_weather_features}
          /\ {f._id : f \in production_weather_features'}
                = {f._id : f \in production_weather_features}
          /\ Cardinality(production_weather_features')
                = Cardinality(production_weather_features)]_vars

\* the events were joined once, at clock 0, and the feature builder has run
\* on them at clock 1 and again at clock 2
C6_Witness ==
    /\ now = 3
    /\ weather_production_events # {}
    /\ \A e \in weather_production_events : e.created_at = 0
    /\ production_weather_features # {}
    /\ production_weather_features = FeatureOutput(weather_production_events, 2)

\* C7: no record later than the reference time T contributes to an aggregate
\* as of T: the weather join of an event reads only snapshots with
\* T - 24 <= timestamp <= T, and the rolling values of an event are those
\* computed from the records up to T alone, whatever later records the
\* collections already hold.
C7_NoLaterRecordContributes ==
    /\ \A log \in timerlogs :
        /\ \A w \in WeatherLookup(log, weather_historical) :
              /\ At(w) >= Hour(log.createdAt - 24)
              /\ At(w) <= Hour(log.createdAt)
        /\ WeatherLookup(log, weather_historical) =
              WeatherLookup(log, {w \in weather_historical :
                                      At(w) <= Hour(log.createdAt)})
    /\ \A e \in weather_production_events :
        Staged(e).rolling =
            RollingFields(e, {d \in weather_production_events :
                                 d.event_timestamp <= e.event_timestamp})

\* an event with a later event of its site less than 6 h after it and a
\* later weather snapshot of its location, after the feature builder ran
C7_Witness ==
    /\ production_weather_features # {}
    /\ \E e, d \in weather_production_events :
        /\ d.site_id = e.site_id
        /\ d.event_timestamp > e.event_timestamp
        /\ d.event_timestamp <= e.event_timestamp + 6
        /\ \E w \in weather_historical :
            /\ w.location_id = e.site_id
            /\ At(w) > Hour(e.event_timestamp)
            /\ w.timestamp <= d.event_timestamp

\* C8: a record whose timestamp lies exactly on a window boundary is in that
\* window: at T - 6 and T for the short window, at T - 24 and T for the
\* 24-hour window, at T - 168 and T - 24 for the baseline window.
C8_BoundariesIncluded ==
    \A e, d \in weather_production_events :
        d.site_id = e.site_id =>
            /\ d.event_timestamp \in {e.event_timestamp - 6, e.event_timestamp}
                  => d \in ShortWindow(e, weather_production_events)
            /\ d.event_timestamp \in {e.event_timestamp - 24, e.event_timestamp}
                  => d \in DayWindow(e, weather_production_events)
            /\ d.event_timestamp \in {e.event_timestamp - 168,
                                      e.event_timestamp - 24}
                  => d \in BaselineWindow(e, weather_production_events)

\* an event with one record of its site exactly 6 h and one exactly 24 h
\* before it, both counted in its aggregates
C8_Witness ==
    \E e, d6, d24 \in weather_production_events :
        /\ d6.site_id = e.site_id
        /\ d24.site_id = e.site_id
        /\ d6.event_timestamp = e.event_timestamp - 6
        /\ d24.event_timestamp = e.event_timestamp - 24
        /\ Staged(e).rolling.production_events_6h = 2
        /\ ~IsNull(Staged(e).rolling.efficiency_7d_baseline)

\* C9: for every reference event the short window and the 7-day baseline
\* window share no record, so no event contributes to both averages.
C9_WindowsDisjoint ==
    \A e \in weather_production_events :
        ShortWindow(e, weather_production_events)
            \cap BaselineWindow(e, weather_production_events) = {}

\* an event with records in both of its windows
C9_Witness ==
    \E e \in weather_production_events :
        /\ Cardinality(ShortWindow(e, weather_production_events)) >= 2
        /\ BaselineWindow(e, weather_production_events) # {}

\* C10: the humidity part of the severity score is 0.01 times the larger of
\* (humidity - 90) and (30 - humidity), the distance outside the 30-90% band.
C10_HumidityDistanceOutsideBand ==
    \A e \in weather_production_events :
        LET h == Staged(e).rolling.humidity_24h_trend
        IN ~IsNull(h) =>
            HumidityPart(h) =
                RatMul(Rat(1, 100),
                       ExprMax(RatSub(h, Rat(90, 1)), RatSub(Rat(30, 1), h)))

\* C11: the rainfall part of weather_severity_score (the score less its
\* humidity part) is 0.4 times min(short-window rainfall, 2.0): it never
\* exceeds 0.8, it is 0.8 for every rainfall at or above 2.0 in, and
\* 0.4 times the rainfall below that.
C11_RainfallPartCapped ==
    \A e \in weather_production_events :
        LET x == Staged(e)
            r == x.rolling.rainfall_6h_rolling
            h == x.rolling.humidity_24h_trend
            score == x.indicators.weather_severity_score
        IN /\ ~IsNull(r)
           /\ ~IsNull(h) =>
                LET part == RatSub(score, HumidityPart(h))
                IN /\ RatLe(part, Rat(4, 5))
                   /\ RatLe(Rat(2, 1), r) => part = Rat(4, 5)
                   /\ RatLt(r, Rat(2, 1)) => part = RatMul(Rat(2, 5), r)

\* one event with more than 2.0 in of short-window rainfall and one with
\* less, the first with a rainfall part of 0.8 and written to the features
C11_Witness ==
    \E e, d \in weather_production_events :
        /\ RatLt(Rat(2, 1), Staged(e).rolling.rainfall_6h_rolling)
        /\ ~IsNull(Staged(e).rolling.humidity_24h_trend)
        /\ RatSub(Staged(e).indicators.weather_severity_score,
                  HumidityPart(Staged(e).rolling.humidity_24h_trend)) = Rat(4, 5)
        /\ RatLt(Zero, Staged(d).rolling.rainfall_6h_rolling)
        /\ RatLt(Staged(d).rolling.rainfall_6h_rolling, Rat(2, 1))
        /\ ~IsNull(Staged(d).rolling.humidity_24h_trend)
        /\ \E f \in production_weather_features :
              f._id = e._id /\ ~IsNull(f.severity_score)

\* C12: production_anomaly_flag of an event is true exactly when its
\* short-window efficiency average is below 0.85 and its short-window
\* rainfall is above 0.5 in (both are numbers: the short window holds the
\* event itself); either condition alone, or a value equal to its
\* threshold, leaves the flag false.
C12_AnomalyFlagConjunction ==
    \A e \in weather_production_events :
        LET x == Staged(e)
            s == x.rolling.efficiency_6h_avg
            r == x.rolling.rainfall_6h_rolling
        IN /\ ~IsNull(s)
           /\ ~IsNull(r)
           /\ x.indicators.production_anomaly_flag
                <=> (RatLt(s, Rat(85, 100)) /\ RatLt(Rat(1, 2), r))

\* three events of one run: one flagged, one at exactly 0.85 efficiency
\* with rain above 0.5 in, one below 0.85 with exactly 0.5 in of rain,
\* the last two unflagged
C12_Witness ==
    \E e, a, b \in weather_production_events :
        /\ Staged(e).indicators.production_anomaly_flag
        /\ Staged(a).rolling.efficiency_6h_avg = Rat(85, 100)
        /\ RatLt(Rat(1, 2), Staged(a).rolling.rainfall_6h_rolling)
        /\ ~Staged(a).indicators.production_anomaly_flag
        /\ RatLt(Staged(b).rolling.efficiency_6h_avg, Rat(85, 100))
        /\ Staged(b).rolling.rainfall_6h_rolling = Rat(1, 2)
        /\ ~Staged(b).indicators.production_anomaly_flag
        /\ \E f \in production_weather_features :
              f._id = e._id
              /\ f.recommended_action = "IMMEDIATE_PARAMETER_ADJUSTMENT"

\* the events of one site
SiteEvents(site) == {d \in weather_production_events : d.site_id = site}

\* C23: the window aggregates and indicators of a site are computed from the
\* records of that site only: what Stages 2 and 3 give an event over the
\* whole collection is what they give over the events of its site alone, and
\* the feature records a run writes for a site (rolling values, indicators,
\* recommended action) are those of a run over that site's events alone,
\* whatever events other sites have.
C23_SitePartitioned ==
    /\ \A e \in weather_production_events :
        Staged(e) = Stage3(e, SiteEvents(e.site_id))
    /\ \A site \in Locations :
        LET written == {f \in production_weather_features :
                          f.site_id = site /\ f.analysis_timestamp = now - 1}
        IN written # {} => written = FeatureOutput(SiteEvents(site), now - 1)

\* both sites have an event at hour 168 and the last run of the feature
\* builder wrote a record for each
C23_Witness ==
    /\ \E e, d \in weather_production_events :
        /\ e.site_id = 1 /\ d.site_id = 2
        /\ e.event_timestamp = 168 /\ d.event_timestamp = 168
    /\ \A site \in Locations :
        \E f \in production_weather_features :
            /\ f.site_id = site
            /\ f.event_timestamp = 168
            /\ f.analysis_timestamp = now - 1

\* C24: the short-window rainfall total of an event depends on the weather
\* of the last 6 hours only, not on how many production events lie in the
\* window: with the weather history unchanged, a step that changes the
\* events of the collection leaves the rainfall_6h_rolling of every event
\* that stays as it was, and its anomaly flag too when its 6-hour efficiency
\* average is the same.
C24_RainfallIndependentOfEventCount ==
    [][\A e \in weather_production_events :
         \A d \in weather_production_events' :
            d._id = e._id =>
                LET before == Staged(e)
                    after == Stage3(d, weather_production_events')
                IN /\ after.rolling.rainfall_6h_rolling
                        = before.rolling.rainfall_6h_rolling
                   /\ after.rolling.efficiency_6h_avg
                        = before.rolling.efficiency_6h_avg
                      => after.indicators.production_anomaly_flag
                            = before.indicators.production_anomaly_flag]_vars

\* the three criteria of an actionable record, on the indicators of an event
Actionable(ind) ==
    \/ /\ ~IsNull(ind.efficiency_degradation_6h)
       /\ RatLt(Rat(1, 10), ind.efficiency_degradation_6h)
    \/ /\ ~IsNull(ind.weather_severity_score)
       /\ RatLt(Rat(6, 10), ind.weather_severity_score)
    \/ ind.production_anomaly_flag = TRUE

\* C27: every record a run of the feature builder writes to
\* production_weather_features satisfies at least one of: efficiency
\* degradation above 0.10, weather severity above 0.6, anomaly flag set; a
\* record that satisfies none of them is never written. Every stored record
\* shows it in its own fields (degradation above 10 percent, severity above
\* 0.6, or the action of a flagged record).
C27_OnlyActionableWritten ==
    [][RunFeatureBuilder =>
          /\ \A e \in weather_production_events :
                (\E f \in production_weather_features' :
                    f._id = e._id /\ f.analysis_timestamp = now)
                => Actionable(Staged(e).indicators)
          /\ \A f \in production_weather_features' :
                \/ RatLt(Rat(10, 1), f.efficiency_degradation_pct)
                \/ ~IsNull(f.severity_score)
                      /\ RatLt(Rat(6, 10), f.severity_score)
                \/ f.recommended_action = "IMMEDIATE_PARAMETER_ADJUSTMENT"]_vars

\* the last run wrote a record for one event and none for another event of
\* the collection, one with severity between 0.3 and 0.6, no degradation and
\* no flag
C27_Witness ==
    /\ \E f \in production_weather_features : f.analysis_timestamp = now - 1
    /\ \E e \in weather_production_events :
        /\ ~Actionable(Staged(e).indicators)
        /\ ~IsNull(Staged(e).indicators.weather_severity_score)
        /\ RatLt(Rat(3, 10), Staged(e).indicators.weather_severity_score)
        /\ Staged(e).indicators.efficiency_degradation_6h = Zero
        /\ \A f \in production_weather_features : f._id # e._id

\* C28: the recommended action of a record the feature builder writes is
\* chosen in first-match order: anomaly flag set gives
\* IMMEDIATE_PARAMETER_ADJUSTMENT; else efficiency degradation above 0.15
\* gives SCHEDULE_MAINTENANCE_CHECK; else weather severity above 0.7 gives
\* CONSIDER_PRODUCTION_HOLD; else CONTINUE_MONITORING.
C28_FirstMatchOrder ==
    [][RunFeatureBuilder =>
          \A e \in weather_production_events :
          \A f \in production_weather_features' :
            (f._id = e._id /\ f.analysis_timestamp = now) =>
                LET ind == Staged(e).indicators
                    flagged == ind.production_anomaly_flag = TRUE
                    degraded ==
                        /\ ~IsNull(ind.efficiency_degradation_6h)
                        /\ RatLt(Rat(15, 100), ind.efficiency_degradation_6h)
                    severe ==
                        /\ ~IsNull(ind.weather_severity_score)
                        /\ RatLt(Rat(7, 10), ind.weather_severity_score)
                IN /\ flagged =>
                        f.recommended_action = "IMMEDIATE_PARAMETER_ADJUSTMENT"
                   /\ (~flagged /\ degraded) =>
                        f.recommended_action = "SCHEDULE_MAINTENANCE_CHECK"
                   /\ (~flagged /\ ~degraded /\ severe) =>
                        f.recommended_action = "CONSIDER_PRODUCTION_HOLD"
                   /\ (~flagged /\ ~degraded /\ ~severe) =>
                        f.recommended_action = "CONTINUE_MONITORING"]_vars

\* a record with the flag set, a degradation of 20 percent and a severity
\* above 0.7 carries the action of the flag; a record of the other site with
\* the same severity, no flag and no degradation carries the hold
C28_Witness ==
    \E f, g \in production_weather_features :
        /\ f.site_id = 1
        /\ f.recommended_action = "IMMEDIATE_PARAMETER_ADJUSTMENT"
        /\ f.efficiency_degradation_pct = Rat(20, 1)
        /\ RatLt(Rat(7, 10), f.severity_score)
        /\ g.site_id = 2
        /\ g.recommended_action = "CONSIDER_PRODUCTION_HOLD"
        /\ g.efficiency_degradation_pct = Zero
        /\ g.analysis_timestamp = f.analysis_timestamp

(***************************************************************************)
(*                     PROPERTIES OF THE JOIN PIPELINE                     *)
(***************************************************************************)

\* the timerlogs a run of the join normalises without error
Normalizable == {l \in timerlogs : Stage1Match(l) /\ ~DivideByZero(l)}

C25_DayTotalsOverAllSnapshots ==
    \A e \in weather_production_events :
        LET day == {w \in weather_historical :
                      /\ w.location_id = e.site_id
                      /\ At(w) >= Hour(e.event_timestamp - 24)
                      /\ At(w) <= Hour(e.event_timestamp)}
        IN /\ e.rainfall_24h = AccSum([w \in day |-> w.precipitation_inches])
           /\ e.humidity_24h_avg = AccAvg([w \in day |-> w.humidity_percent])

\* C26: a run of the join never ends in an error because of one event: with
\* an event of actual duration 0 and a positive standard duration in the
\* batch nothing is divided by zero, and the other events of the batch are
\* written.
C26_ZeroDurationTolerated ==
    [][RunJoin =>
          /\ ~join_error'
          /\ \A l \in Normalizable :
                \E e \in weather_production_events' :
                    e._id = l._id /\ e.created_at = now]_vars

(***************************************************************************)
(*                       PROPERTIES OF THE DEPLOYMENT                      *)
(***************************************************************************)

\* the services of the "up" statements before statement number n
StartedBefore(n) ==
    UNION {DeployApplication[i].services :
              i \in {j \in 1..Len(DeployApplication) :
                         j < n /\ DeployApplication[j].op = "up"}}

\* C29: the application services are started only after mongodb, redis and
\* kafka have each been observed healthy, the dashboard and nginx only after
\* the four application services have each been observed healthy, and a
\* container that runs but is unhealthy or still starting is not accepted as
\* healthy.
C29_StartedOnlyAfterHealthy ==
    /\ started \cap ApplicationServices # {} =>
          \A s \in {"mongodb", "redis", "kafka"} : observed[s] = UpHealthy
    /\ started \cap FrontendServices # {} =>
          \A s \in ApplicationServices : observed[s] = UpHealthy
    /\ \A s \in WaitedServices : observed[s] \notin {UpUnhealthy, UpStarting}

\* C30: wait_for_service always terminates: it makes at most 30 status
\* checks and then has reported the service healthy or returned failure; a
\* failure ends the script there, with no service group of a later statement
\* started, nothing started afterwards and no "Deployment completed
\* successfully".
C30_WaitTerminates ==
    /\ [](attempt <= MaxAttempts + 1 /\ checks <= MaxAttempts)
    /\ [](attempt >= 1 => checks = attempt - 1)
    /\ [](failed # NoService =>
            /\ outcome = "aborted"
            /\ checks = MaxAttempts
            /\ DeployApplication[step] = WaitFor(failed)
            /\ started = StartedBefore(step))
    /\ [][outcome = "aborted" =>
            started' = started /\ outcome' = "aborted"]_vars
    /\ (attempt >= 1) ~> (attempt = 0 \/ failed # NoService)

\* mongodb and redis were reported, kafka was not ready in 30 checks: the
\* script is over with the core services started and nothing else
C30_Witness ==
    /\ failed = "kafka"
    /\ outcome = "aborted"
    /\ checks = MaxAttempts
    /\ observed["mongodb"] = UpHealthy
    /\ observed["redis"] = UpHealthy
    /\ started = CoreServices

====
